---- MODULE Spec2Model ----
(***************************************************************************)
(* A model of the text-to-tree pipeline of osbuild-ks (src/src/main.rs):   *)
(* Kickstart::from_path loads a file, strips its comments (File::clean),   *)
(* flattens its %include directives recursively (File::resolve) and splits *)
(* the flattened text into sections (Tree::parse, Tree::merge).            *)
(*                                                                         *)
(* A String is a sequence of one-character strings; "\n" ends a line.      *)
(***************************************************************************)
EXTENDS Integers, Sequences, FiniteSets, TLC

VARIABLES
    fs,               \* the include directory: file name -> [exists, data]
    pc,               \* position in Kickstart::from_path: start, load, parse, done
    stack,            \* the active File::from_path calls, innermost last
    handles,          \* the fs::File handles that are open, in opening order
    file,             \* the File returned to Kickstart::from_path (line 79)
    idx,              \* Tree::parse: number of lines of the loop consumed
    in_section,       \* Tree::parse: local in_section
    section,          \* Tree::parse: local section
    command_section,  \* Tree::parse: local command_section
    sections,         \* Tree.sections
    loads,            \* the files File::from_path has opened and read so far
    steps,            \* the calls, returns and loop iterations executed so far
    result            \* running, Ok, Err_IO, exit1, exit2, stack_overflow

vars == <<fs, pc, stack, handles, file, idx, in_section, section,
          command_section, sections, loads, steps, result>>

-----------------------------------------------------------------------------
(* Bounds *)

\* lines of the root file
MaxRootLines == 3
\* lines of the text handed to Tree::parse in SpecParse
MaxParseLines == 4
\* nested File::from_path calls the process can hold (stack, open handles)
MaxDepth == 3

-----------------------------------------------------------------------------
(* Strings *)

NL == "\n"
CR == "\r"

\* char::is_whitespace, on the characters the model uses
WhiteSpace == {" ", "\t", NL, CR}

\* str::starts_with
StartsWith(s, p) ==
    /\ Len(s) >= Len(p)
    /\ SubSeq(s, 1, Len(p)) = p

\* str::strip_suffix('\r') of a line that ended in '\n'
StripCR(l) ==
    IF l # <<>> /\ l[Len(l)] = CR THEN SubSeq(l, 1, Len(l) - 1) ELSE l

RECURSIVE LinesAcc(_, _, _)
LinesAcc(s, cur, acc) ==
    IF s = <<>>
    THEN IF cur = <<>> THEN acc ELSE Append(acc, cur)
    ELSE IF Head(s) = NL
         THEN LinesAcc(Tail(s), <<>>, Append(acc, StripCR(cur)))
         ELSE LinesAcc(Tail(s), Append(cur, Head(s)), acc)

\* str::lines: split at "\n", drop the "\n" and one "\r" before it; a last
\* line without "\n" is yielded when it is not empty
Lines(s) == LinesAcc(s, <<>>, <<>>)

RECURSIVE SplitAcc(_, _, _)
SplitAcc(s, cur, acc) ==
    IF s = <<>>
    THEN IF cur = <<>> THEN acc ELSE Append(acc, cur)
    ELSE IF Head(s) \in WhiteSpace
         THEN SplitAcc(Tail(s), <<>>, IF cur = <<>> THEN acc ELSE Append(acc, cur))
         ELSE SplitAcc(Tail(s), Append(cur, Head(s)), acc)

\* str::split_whitespace().collect()
SplitWhitespace(s) == SplitAcc(s, <<>>, <<>>)

RECURSIVE Concat(_)
\* the concatenation of a sequence of strings
Concat(ss) == IF ss = <<>> THEN <<>> ELSE Head(ss) \o Concat(Tail(ss))

\* line + "\n"
WithNL(l) == Append(l, NL)

\* a text of the given lines, each ended by "\n"
Text(ls) == Concat([i \in DOMAIN ls |-> WithNL(ls[i])])

\* all sequences over S of length at most n
SeqsUpTo(S, n) == UNION {[1..k -> S] : k \in 0..n}

-----------------------------------------------------------------------------
(* Literals of the program *)

CommentMarker == <<"#">>
IncludeToken == <<"%", "i", "n", "c", "l", "u", "d", "e">>
SectionMarker == <<"%">>
EndMarker == <<"%", "e", "n", "d">>
CommandName == <<"c", "o", "m", "m", "a", "n", "d">>

-----------------------------------------------------------------------------
(* File *)

\* File::clean, line 112: the lines that are kept
IsComment(line) == StartsWith(line, CommentMarker)

\* a File::clean that empties a comment line instead of removing it
Clean_BlankComments(data) ==
    LET ls == Lines(data)
    IN  Concat([i \in DOMAIN ls |-> IF IsComment(ls[i]) THEN <<NL>> ELSE WithNL(ls[i])])

\* File::clean
Clean(data) ==
    LET ls == Lines(data)
    IN  Concat([i \in DOMAIN ls |-> IF IsComment(ls[i]) THEN <<>> ELSE WithNL(ls[i])])

\* a test for the directive that wants the blank before its argument
IsInclude_NeedsBlank(line) == StartsWith(line, Append(IncludeToken, " "))

\* File::resolve, line 127
IsInclude(line) == StartsWith(line, IncludeToken)

\* File::resolve, lines 129-131
WellFormedInclude(line) == Len(SplitWhitespace(line)) = 2

\* a path made of the first token, the directive, instead of the second
IncludePath_FirstToken(line) == SplitWhitespace(line)[1]

\* File::resolve, line 142: Path::join(inc, parts[1]), as a name in inc
IncludePath(line) == SplitWhitespace(line)[2]

\* Path::exists
Exists(path) == path \in DOMAIN fs /\ fs[path].exists

\* File::from_path, lines 91-101: open, read, clean; the state of the call
\* when it enters the loop of File::resolve (lines 124-126): self.path,
\* self.data, the iterator self.data.lines() with its position, and the
\* local data (out)
EnterFromPath(path) ==
    LET data == Clean(fs[path].data)
    IN  [path  |-> path,
         data  |-> data,
         lines |-> Lines(data),
         line  |-> 1,
         out   |-> <<>>]

\* File::resolve, line 159
CopyLine(out, line) == out \o WithNL(line)

\* a splice that puts the included text before what was copied so far
Splice_Front(out, string) == string \o out

\* File::resolve, line 157
Splice(out, string) == out \o string

-----------------------------------------------------------------------------
(* Tree *)

\* Section, lines 44-48
NewSection(name, data, args) == [name |-> name, data |-> data, args |-> args]

\* a command section that was given no name
InitCommandSection_Unnamed == NewSection(<<>>, <<>>, <<>>)

\* Tree::parse, lines 185-189
InitCommandSection == NewSection(CommandName, <<>>, <<>>)

\* Tree::parse, lines 191-195
InitSection == NewSection(<<>>, <<>>, <<>>)

\* Tree::parse, lines 199 and 215
IsSectionLine(line) == StartsWith(line, SectionMarker)

\* a comparison with the marker and its line end, which no line has
IsEnd_WithNewline(line) == line = Append(EndMarker, NL)

\* Tree::parse, lines 200 and 216
IsEnd(line) == line = EndMarker

\* Tree::parse, lines 224-233: the section a marker line opens
OpenSection(line) ==
    LET parts == SplitWhitespace(line)
    IN  NewSection(parts[1], <<>>, SubSeq(parts, 2, Len(parts)))

\* a body that skips empty lines as the command section does
AppendBody_SkipBlank(s, line) ==
    IF line # <<>> THEN [s EXCEPT !.data = @ \o WithNL(line)] ELSE s

\* a body that is assigned the line instead of being extended by it
AppendBody_Replace(s, line) == [s EXCEPT !.data = WithNL(line)]

\* Tree::parse, line 212
AppendBody(s, line) == [s EXCEPT !.data = @ \o WithNL(line)]

\* a command section that keeps empty lines as a section body does
AppendCommand_KeepBlank(s, line) == [s EXCEPT !.data = @ \o WithNL(line)]

\* Tree::parse, lines 240-242
AppendCommand(s, line) ==
    IF line # <<>> THEN [s EXCEPT !.data = @ \o WithNL(line)] ELSE s

\* a line 204-208 that takes the marker line into the body
NestedStart_Append(s, line) == [s EXCEPT !.data = @ \o WithNL(line)]

\* Tree::parse, lines 204-208: the line is reported and the section is left
\* as it is
NestedStart(s, line) == s

\* a push that puts the section in front of the list
Push_Front(ss, s) == <<s>> \o ss

\* Vec::push, Tree::parse, lines 202 and 247
Push(ss, s) == Append(ss, s)

\* a merge that keeps the first section of each name
Merge_KeepFirst(ss) ==
    LET first(i) == \A j \in 1..(i - 1) : ss[j].name # ss[i].name
        keep == {i \in DOMAIN ss : first(i)}
        RECURSIVE pick(_)
        pick(i) == IF i > Len(ss) THEN <<>>
                   ELSE (IF i \in keep THEN <<ss[i]>> ELSE <<>>) \o pick(i + 1)
    IN  pick(1)

\* Tree::merge
Merge(ss) == ss

-----------------------------------------------------------------------------
(* Inputs *)

\* file names in the include directory
A == <<"a">>
B == <<"b">>
C == <<"c">>
FileNames == {A, B, C}

\* the file Kickstart::from_path is called with
RootPath == A

NoFile == [exists |-> FALSE, data |-> <<>>]
FileOf(ls) == [exists |-> TRUE, data |-> Text(ls)]

Include(name) == IncludeToken \o <<" ">> \o name

LX == <<"x">>
LY == <<"y">>
LBlank == <<>>
LComment == <<"#", "c">>
LOpen == <<"%", "p">>
\* a line that keeps a "\r" when str::lines has dropped "\r\n"
LCarriage == <<"x", CR, CR>>
LPost == <<"%", "p", "o", "s", "t", " ", "-", "-", "e">>
LPackages == <<"%", "p", "k", "g">>

\* the lines a root file is made of
RootLines ==
    {LX, LBlank, LComment, LOpen, EndMarker,
     Include(B), Include(C), IncludeToken}

\* the files b and c of the include directory
IncludeDirs ==
    { [b |-> NoFile, c |-> NoFile],
      [b |-> FileOf(<<LY, LX>>), c |-> NoFile],
      [b |-> FileOf(<<LComment, Include(C), LY>>),
       c |-> FileOf(<<LX, LComment, LBlank>>)],
      [b |-> FileOf(<<LY, Include(A)>>), c |-> FileOf(<<Include(C)>>)],
      [b |-> FileOf(<<LY, Include(C)>>), c |-> NoFile],
      [b |-> FileOf(<<LX, Include(A) \o <<" ">> \o C>>),
       c |-> FileOf(<<LY, IncludeToken>>)],
      [b |-> FileOf(<<LCarriage, LOpen, Include(C)>>),
       c |-> FileOf(<<LComment \o <<CR>>, LY \o <<CR>>, EndMarker>>)] }

RootFiles == {FileOf(ls) : ls \in SeqsUpTo(RootLines, MaxRootLines)} \cup {NoFile}

\* the lines of a flattened text: no comment, no include directive
ParseLines == {LX, LY, LBlank, LPost, LPackages, EndMarker}

\* the example of the specification, section 8
ExampleText == Text(<<LX, LPost, LY, LBlank, LX, EndMarker, LY>>)

\* a text with a section that is called like the command section
LCommand == <<"%">> \o CommandName
ClashText == Text(<<LCommand, LX, EndMarker, LY>>)

ParseTexts ==
    {Text(ls) : ls \in SeqsUpTo(ParseLines, MaxParseLines)}
        \cup {ExampleText, ClashText}

-----------------------------------------------------------------------------
(* State machine *)

ParseLocals ==
    /\ idx = 1
    /\ in_section = FALSE
    /\ section = InitSection
    /\ command_section = InitCommandSection
    /\ sections = <<>>

Init ==
    /\ \E root \in RootFiles, dir \in IncludeDirs :
         fs = (A :> root) @@ (B :> dir.b) @@ (C :> dir.c)
    /\ pc = "start"
    /\ stack = <<>>
    /\ handles = <<>>
    /\ file = [path |-> <<>>, data |-> <<>>]
    /\ ParseLocals
    /\ loads = 0
    /\ steps = 0
    /\ result = "running"

\* the state in which File::from_path has returned Ok to Kickstart::from_path
\* and Tree::from_file(file).parse() starts
InitParse ==
    /\ \E text \in ParseTexts :
         /\ fs = (A :> [exists |-> TRUE, data |-> text]) @@ (B :> NoFile) @@ (C :> NoFile)
         /\ file = [path |-> RootPath, data |-> text]
    /\ pc = "parse"
    /\ stack = <<>>
    /\ handles = <<>>
    /\ ParseLocals
    /\ loads = 1
    /\ steps = 0
    /\ result = "running"

Top == stack[Len(stack)]
TopLines == Top.lines
Resolving == pc = "load" /\ stack # <<>> /\ Top.line <= Len(TopLines)
\* the line File::resolve is at
ResolveLine == TopLines[Top.line]

UnchangedParse == UNCHANGED <<idx, in_section, section, command_section, sections>>

\* Kickstart::from_path, lines 70-79: the call of File::from_path
KickstartFromPath ==
    /\ steps' = steps + 1
    /\ pc = "start"
    /\ Exists(RootPath)
    /\ stack' = <<EnterFromPath(RootPath)>>
    /\ handles' = <<RootPath>>
    /\ loads' = loads + 1
    /\ pc' = "load"
    /\ UNCHANGED <<fs, file, result>>
    /\ UnchangedParse

\* Kickstart::from_path, line 70: src.canonicalize()? fails
KickstartNoSource ==
    /\ steps' = steps + 1
    /\ pc = "start"
    /\ ~Exists(RootPath)
    /\ result' = "Err_IO"
    /\ pc' = "done"
    /\ UNCHANGED <<fs, stack, handles, file, loads>>
    /\ UnchangedParse

\* File::resolve, line 159
ResolveCopy ==
    /\ steps' = steps + 1
    /\ Resolving
    /\ ~IsInclude(ResolveLine)
    /\ stack' = [stack EXCEPT ![Len(stack)] =
                   [@ EXCEPT !.out = CopyLine(@, ResolveLine), !.line = @ + 1]]
    /\ UNCHANGED <<fs, pc, handles, file, loads, result>>
    /\ UnchangedParse

\* File::resolve, lines 131-134
ResolveMalformed ==
    /\ steps' = steps + 1
    /\ Resolving
    /\ IsInclude(ResolveLine)
    /\ ~WellFormedInclude(ResolveLine)
    /\ result' = "exit1"
    /\ pc' = "done"
    /\ UNCHANGED <<fs, stack, handles, file, loads>>
    /\ UnchangedParse

\* File::resolve, lines 144-147
ResolveMissing ==
    /\ steps' = steps + 1
    /\ Resolving
    /\ IsInclude(ResolveLine)
    /\ WellFormedInclude(ResolveLine)
    /\ ~Exists(IncludePath(ResolveLine))
    /\ result' = "exit2"
    /\ pc' = "done"
    /\ UNCHANGED <<fs, stack, handles, file, loads>>
    /\ UnchangedParse

\* File::resolve, line 149: the nested call of File::from_path
ResolveInclude ==
    /\ steps' = steps + 1
    /\ Resolving
    /\ IsInclude(ResolveLine)
    /\ WellFormedInclude(ResolveLine)
    /\ Exists(IncludePath(ResolveLine))
    /\ Len(stack) < MaxDepth
    /\ stack' = Append(stack, EnterFromPath(IncludePath(ResolveLine)))
    /\ handles' = Append(handles, IncludePath(ResolveLine))
    /\ loads' = loads + 1
    /\ UNCHANGED <<fs, pc, file, result>>
    /\ UnchangedParse

\* File::resolve, line 149, when the process cannot hold another call:
\* fs::File::open fails (line 91, every caller still holds its handle) and
\* the error is passed up by each `?`, or the stack overflows
ResolveExhausted ==
    /\ steps' = steps + 1
    /\ Resolving
    /\ IsInclude(ResolveLine)
    /\ WellFormedInclude(ResolveLine)
    /\ Exists(IncludePath(ResolveLine))
    /\ Len(stack) >= MaxDepth
    /\ \/ /\ result' = "Err_IO"
          /\ stack' = <<>>
          /\ handles' = <<>>
       \/ /\ result' = "stack_overflow"
          /\ UNCHANGED <<stack, handles>>
    /\ pc' = "done"
    /\ UNCHANGED <<fs, file, loads>>
    /\ UnchangedParse

\* File::resolve, lines 163-165, File::from_path, line 104, and the caller's
\* lines 149-157
FromPathReturn ==
    /\ steps' = steps + 1
    /\ pc = "load"
    /\ Len(stack) > 1
    /\ Top.line > Len(TopLines)
    /\ stack' = [SubSeq(stack, 1, Len(stack) - 1) EXCEPT ![Len(stack) - 1] =
                   [@ EXCEPT !.out = Splice(@, Top.out), !.line = @ + 1]]
    /\ handles' = SubSeq(handles, 1, Len(handles) - 1)
    /\ UNCHANGED <<fs, pc, file, loads, result>>
    /\ UnchangedParse

\* the same, returning to Kickstart::from_path, lines 79-80, which goes on
\* to Tree::from_file and the head of Tree::parse (lines 174-195)
FromPathReturnRoot ==
    /\ steps' = steps + 1
    /\ pc = "load"
    /\ Len(stack) = 1
    /\ Top.line > Len(TopLines)
    /\ file' = [path |-> Top.path, data |-> Top.out]
    /\ stack' = <<>>
    /\ handles' = <<>>
    /\ pc' = "parse"
    /\ UNCHANGED <<fs, loads, result>>
    /\ UnchangedParse

FileLines == Lines(file.data)
Parsing == pc = "parse" /\ idx <= Len(FileLines)
\* the line Tree::parse is at
ParseLine == FileLines[idx]

UnchangedLoad == UNCHANGED <<fs, pc, stack, handles, file, loads, result>>

\* Tree::parse, lines 200-203
ParseEnd ==
    /\ steps' = steps + 1
    /\ Parsing /\ in_section
    /\ IsSectionLine(ParseLine) /\ IsEnd(ParseLine)
    /\ in_section' = FALSE
    /\ sections' = Push(sections, section)
    /\ idx' = idx + 1
    /\ UNCHANGED <<section, command_section>>
    /\ UnchangedLoad

\* Tree::parse, lines 204-208
ParseNested ==
    /\ steps' = steps + 1
    /\ Parsing /\ in_section
    /\ IsSectionLine(ParseLine) /\ ~IsEnd(ParseLine)
    /\ section' = NestedStart(section, ParseLine)
    /\ idx' = idx + 1
    /\ UNCHANGED <<in_section, command_section, sections>>
    /\ UnchangedLoad

\* Tree::parse, lines 209-213
ParseBody ==
    /\ steps' = steps + 1
    /\ Parsing /\ in_section
    /\ ~IsSectionLine(ParseLine)
    /\ section' = AppendBody(section, ParseLine)
    /\ idx' = idx + 1
    /\ UNCHANGED <<in_section, command_section, sections>>
    /\ UnchangedLoad

\* Tree::parse, lines 216-219
ParseStrayEnd ==
    /\ steps' = steps + 1
    /\ Parsing /\ ~in_section
    /\ IsSectionLine(ParseLine) /\ IsEnd(ParseLine)
    /\ idx' = idx + 1
    /\ UNCHANGED <<in_section, section, command_section, sections>>
    /\ UnchangedLoad

\* Tree::parse, lines 220-236
ParseStart ==
    /\ steps' = steps + 1
    /\ Parsing /\ ~in_section
    /\ IsSectionLine(ParseLine) /\ ~IsEnd(ParseLine)
    /\ in_section' = TRUE
    /\ section' = OpenSection(ParseLine)
    /\ idx' = idx + 1
    /\ UNCHANGED <<command_section, sections>>
    /\ UnchangedLoad

\* Tree::parse, lines 237-243
ParseCommand ==
    /\ steps' = steps + 1
    /\ Parsing /\ ~in_section
    /\ ~IsSectionLine(ParseLine)
    /\ command_section' = AppendCommand(command_section, ParseLine)
    /\ idx' = idx + 1
    /\ UNCHANGED <<in_section, section, sections>>
    /\ UnchangedLoad

\* Tree::parse, lines 247-248, and Kickstart::from_path, lines 82-85
ParseFinish ==
    /\ steps' = steps + 1
    /\ pc = "parse"
    /\ idx > Len(FileLines)
    /\ sections' = Merge(Push(sections, command_section))
    /\ result' = "Ok"
    /\ pc' = "done"
    /\ UNCHANGED <<fs, stack, handles, file, loads, idx, in_section, section,
                   command_section>>

NextParse ==
    \/ ParseEnd
    \/ ParseNested
    \/ ParseBody
    \/ ParseStrayEnd
    \/ ParseStart
    \/ ParseCommand
    \/ ParseFinish

Next ==
    \/ KickstartFromPath
    \/ KickstartNoSource
    \/ ResolveCopy
    \/ ResolveMalformed
    \/ ResolveMissing
    \/ ResolveInclude
    \/ ResolveExhausted
    \/ FromPathReturn
    \/ FromPathReturnRoot
    \/ NextParse

\* Kickstart::from_path on a root file and an include directory
Spec == Init /\ [][Next]_vars

\* Tree::parse on a flattened text
SpecParse == InitParse /\ [][NextParse]_vars

TypeOK ==
    /\ pc \in {"start", "load", "parse", "done"}
    /\ result \in {"running", "Ok", "Err_IO", "exit1", "exit2", "stack_overflow"}
    /\ Len(stack) <= MaxDepth
    /\ Len(handles) = Len(stack) \/ result = "Err_IO"
    /\ in_section \in BOOLEAN

-----------------------------------------------------------------------------
(* Properties *)

RECURSIVE SplitNL(_, _, _)
SplitNL(s, cur, acc) ==
    IF s = <<>>
    THEN IF cur = <<>> THEN acc ELSE Append(acc, cur)
    ELSE IF Head(s) = NL
         THEN SplitNL(Tail(s), <<>>, Append(acc, cur))
         ELSE SplitNL(Tail(s), Append(cur, Head(s)), acc)

\* the body of a section, as the lines that were appended to its data
Body(s) == SplitNL(s.data, <<>>, <<>>)

NoLineWith(text, p) ==
    LET ls == Lines(text)
    IN  \A i \in DOMAIN ls : ~StartsWith(ls[i], p)

\* C1: when the last line has been consumed while the parser is inside a
\* section, Tree::parse fails with a ParseError instead of returning the
\* section list.
C1_UnterminatedSectionFails ==
    (pc = "done" /\ in_section) => result = "Err_Parse"

\* C2: a file that is still being resolved is never entered again: an include
\* cycle ends with a CycleError, not with the exhaustion of the process.
C2_CycleFailsWithCycleError ==
    /\ \A i, j \in DOMAIN stack : i < j => stack[i].path # stack[j].path
    /\ result \notin {"stack_overflow"}

\* C3: the section opened while Outside by a line `%<name> <arg>...` has the
\* name without the `%` marker and the remaining tokens as its arguments, and
\* `%end` appends that section unchanged.
C3_SectionNameWithoutMarker ==
    [][/\ (Parsing /\ ~in_section /\ in_section') =>
            /\ section'.name = Tail(SplitWhitespace(ParseLine)[1])
            /\ section'.args = Tail(SplitWhitespace(ParseLine))
       /\ (Parsing /\ in_section /\ ~in_section') =>
            sections' = Append(sections, section)]_vars

\* C4: while Inside, every line that does not start with `%`, an empty line
\* included, is appended to the body of the current section; while Outside, an
\* empty line is appended to no section, and the body of the command section
\* never holds an empty line.
C4_BlankLinesAsymmetric ==
    [][Parsing =>
         /\ (in_section /\ ~StartsWith(ParseLine, <<"%">>)) =>
               /\ Body(section') = Append(Body(section), ParseLine)
               /\ UNCHANGED <<in_section, command_section, sections>>
         /\ (~in_section /\ ParseLine = <<>>) =>
               UNCHANGED <<in_section, section, command_section, sections>>
         /\ \A i \in DOMAIN Body(command_section') : Body(command_section')[i] # <<>>]_vars

C4_Witness ==
    /\ pc = "done"
    /\ file.data = Text(<<LBlank, LPost, LBlank, EndMarker>>)
    /\ Len(sections) = 2
    /\ Body(sections[1]) = <<LBlank>>
    /\ Body(sections[2]) = <<>>

\* C5: no line of a resolved content begins with `%include`, at any depth of
\* nested inclusion: neither in the text a call of File::resolve has built so
\* far nor in the File that Kickstart::from_path receives.
C5_NoIncludeLeft ==
    /\ \A k \in DOMAIN stack : NoLineWith(stack[k].out, IncludeToken)
    /\ NoLineWith(file.data, IncludeToken)

C5_Witness ==
    /\ pc = "parse"
    /\ fs[A].data = Text(<<Include(B)>>)
    /\ fs[B].data = Text(<<LComment, Include(C), LY>>)
    /\ file.data = Text(<<LX, LBlank, LY>>)

RECURSIVE Flat(_)
\* the text of a file with every directive replaced, in place, by the text of
\* the file it names
Flat(path) ==
    LET ls == Lines(Clean(fs[path].data))
    IN  Concat([i \in DOMAIN ls |->
                  IF IsInclude(ls[i]) THEN Flat(IncludePath(ls[i])) ELSE WithNL(ls[i])])

\* the same for the lines of a call that are already consumed
FlatPrefix(f) ==
    Concat([i \in 1..(f.line - 1) |->
              IF IsInclude(f.lines[i]) THEN Flat(IncludePath(f.lines[i]))
              ELSE WithNL(f.lines[i])])

\* C6: include substitution is in place and keeps the order: the text built by
\* File::resolve is, line by line of the file, the line itself or, for a
\* directive, the whole resolved content of the included file; the directive
\* itself is not retained.
C6_SpliceInPlace ==
    /\ \A k \in DOMAIN stack : stack[k].out = FlatPrefix(stack[k])
    /\ file.path = RootPath => file.data = Flat(RootPath)

C6_Witness ==
    /\ pc = "parse"
    /\ fs[A].data = Text(<<LX, Include(B), LOpen>>)
    /\ fs[B].data = Text(<<LY, LX>>)
    /\ file.data = Text(<<LX, LY, LX, LOpen>>)

\* C7: the section list returned by Tree::parse after Tree::merge holds no two
\* sections of the same name.
C7_MergedNamesUnique ==
    pc = "done" =>
        \A i, j \in DOMAIN sections : i < j => sections[i].name # sections[j].name

\* C8: a line beginning with `%include` that does not have exactly one
\* argument makes the operation fail with a ParseError that is returned to the
\* caller of Kickstart::from_path.
C8_MalformedIncludeIsParseError ==
    [][(Resolving /\ IsInclude(ResolveLine) /\ ~WellFormedInclude(ResolveLine)) =>
          (pc' = "done" /\ result' = "Err_Parse")]_vars

\* C9: a well-formed `%include <name>` whose target does not exist makes the
\* operation fail with an IOError that is returned to the caller of
\* Kickstart::from_path, at any depth of nested inclusion.
C9_MissingIncludeIsIOError ==
    [][(/\ Resolving
        /\ IsInclude(ResolveLine)
        /\ WellFormedInclude(ResolveLine)
        /\ ~Exists(IncludePath(ResolveLine))) =>
          (pc' = "done" /\ result' = "Err_IO")]_vars

\* the lines File::clean keeps, as str::lines reads them back
Kept(raw) ==
    LET ls == SelectSeq(Lines(raw), LAMBDA l : ~StartsWith(l, <<"#">>))
    IN  [i \in DOMAIN ls |-> StripCR(ls[i])]

\* C10: the content of a file never contains a line whose first character is
\* `#`, after File::clean and in the text File::resolve builds; File::clean
\* removes each comment line entirely and keeps the other lines in order.
C10_NoCommentLine ==
    /\ \A k \in DOMAIN stack :
         /\ NoLineWith(stack[k].data, <<"#">>)
         /\ NoLineWith(stack[k].out, <<"#">>)
         /\ stack[k].lines = Kept(fs[stack[k].path].data)
    /\ NoLineWith(file.data, <<"#">>)

C10_Witness ==
    /\ pc = "parse"
    /\ fs[A].data = Text(<<LComment, Include(B), LX>>)
    /\ fs[B].data = Text(<<LComment, Include(C), LY>>)
    /\ file.data = Text(<<LX, LBlank, LY, LX>>)

\* C11: comment stripping is idempotent: File::clean applied to the content
\* File::clean has produced gives that content again.
C11_CleanIdempotent ==
    \A k \in DOMAIN stack : Clean(stack[k].data) = stack[k].data

\* C12: for a flattened text in which no line starts with `%`, Tree::parse
\* returns exactly one section, named `command`, without arguments, whose body
\* is the non-empty lines of the text in their order.
C12_CommandOnly ==
    (pc = "done" /\ result = "Ok" /\ NoLineWith(file.data, <<"%">>)) =>
        sections = <<[name |-> <<"c", "o", "m", "m", "a", "n", "d">>,
                      data |-> Text(SelectSeq(FileLines, LAMBDA l : l # <<>>)),
                      args |-> <<>>]>>

C12_Witness ==
    /\ pc = "done"
    /\ file.data = Text(<<LX, LBlank, LY, LX>>)
    /\ Len(sections) = 1
    /\ Body(sections[1]) = <<LX, LY, LX>>

\* the marker lines of a text: a line that starts with `%`, and among them
\* the openers, which are not `%end`
Marker(l) == StartsWith(l, <<"%">>)
Opener(l) == Marker(l) /\ l # <<"%", "e", "n", "d">>

\* the first `%end` of ls at or after i, Len(ls) + 1 when there is none
FirstEnd(ls, i) ==
    LET ends == {j \in i..Len(ls) : ls[j] = <<"%", "e", "n", "d">>}
    IN  IF ends = {} THEN Len(ls) + 1
        ELSE CHOOSE j \in ends : \A k \in ends : j <= k

RECURSIVE Spans(_, _)
\* the sections of a text from line i on, each from its opening line to the
\* `%end` that closes it
Spans(ls, i) ==
    IF i > Len(ls) THEN <<>>
    ELSE IF Opener(ls[i])
         THEN LET e == FirstEnd(ls, i + 1)
              IN  <<[open |-> i, close |-> e]>> \o Spans(ls, e + 1)
         ELSE Spans(ls, i + 1)

\* the sections that are closed before the end of the text
ClosedSpans(ls) == SelectSeq(Spans(ls, 1), LAMBDA sp : sp.close <= Len(ls))

\* line i is read while the parser is Outside
OutsideAt(ls, i) ==
    LET sps == Spans(ls, 1)
    IN  \A k \in DOMAIN sps : ~(sps[k].open < i /\ i <= sps[k].close)

RECURSIVE Pick(_, _, _)
\* the lines of ls from i on whose index is in keep, in order
Pick(ls, i, keep) ==
    IF i > Len(ls) THEN <<>>
    ELSE (IF i \in keep THEN <<ls[i]>> ELSE <<>>) \o Pick(ls, i + 1, keep)

\* the lines that belong to the command section
CommandLines(ls) ==
    Pick(ls, 1, {i \in DOMAIN ls : OutsideAt(ls, i) /\ ~Marker(ls[i]) /\ ls[i] # <<>>})

\* the lines that belong to the section of a span
SpanLines(ls, sp) ==
    Pick(ls, 1, {i \in DOMAIN ls : sp.open < i /\ i < sp.close /\ ~Marker(ls[i])})

\* C13: for every input, the list returned by Tree::parse holds exactly one
\* section named `command`; it is the last element, its arguments are empty
\* and its body is the non-empty lines read while Outside that do not start
\* with `%`, in order.
C13_CommandSectionLast ==
    (pc = "done" /\ result = "Ok") =>
        /\ sections # <<>>
        /\ sections[Len(sections)] =
               [name |-> <<"c", "o", "m", "m", "a", "n", "d">>,
                data |-> Text(CommandLines(FileLines)),
                args |-> <<>>]
        /\ \A i \in 1..(Len(sections) - 1) :
               sections[i].name # <<"c", "o", "m", "m", "a", "n", "d">>

C13_Witness ==
    /\ pc = "done"
    /\ file.data = Text(<<EndMarker, LX, LPost, LY>>)
    /\ Len(sections) = 1
    /\ sections[1].name = CommandName
    /\ Body(sections[1]) = <<LX>>

\* C14: the sections other than the command section appear in the list in
\* the order of their opening lines in the text: the k-th of them is the one
\* opened by the k-th opening line whose section is closed.
C14_SectionsInOpeningOrder ==
    (pc = "done" /\ result = "Ok") =>
        LET closed == ClosedSpans(FileLines)
        IN  /\ Len(sections) = Len(closed) + 1
            /\ \A k \in DOMAIN closed :
                 LET parts == SplitWhitespace(FileLines[closed[k].open])
                 IN  /\ sections[k].name = parts[1]
                     /\ sections[k].args = Tail(parts)

C14_Witness ==
    /\ pc = "done"
    /\ file.data = Text(<<LPost, EndMarker, LPackages, EndMarker>>)
    /\ Len(sections) = 3
    /\ sections[1].name = <<"%", "p", "o", "s", "t">>
    /\ sections[2].name = LPackages

\* C15: a line equal to `%end` read while Outside changes nothing: the parser
\* stays Outside, no section is touched, nothing is appended to the list and
\* the run goes on with the next line.
C15_StrayEndChangesNothing ==
    [][(Parsing /\ ~in_section /\ ParseLine = <<"%", "e", "n", "d">>) =>
          /\ idx' = idx + 1
          /\ UNCHANGED <<in_section, section, command_section, sections,
                         pc, result, file>>]_vars

C15_Witness ==
    /\ pc = "done"
    /\ result = "Ok"
    /\ file.data = Text(<<LX, EndMarker, LY>>)
    /\ Len(sections) = 1
    /\ Body(sections[1]) = <<LX, LY>>

\* C16: a line that starts with `%` and is not `%end`, read while Inside, is
\* dropped: the parser stays Inside the same section, whose name, arguments
\* and body are unchanged, no section is started or appended, and the next
\* `%end` appends that section.
C16_NestedStartDropped ==
    [][/\ (Parsing /\ in_section /\ Opener(ParseLine)) =>
            /\ idx' = idx + 1
            /\ UNCHANGED <<in_section, section, command_section, sections>>
       /\ (Parsing /\ in_section /\ ParseLine = <<"%", "e", "n", "d">>) =>
            /\ sections' = Append(sections, section)
            /\ ~in_section']_vars

C16_Witness ==
    /\ pc = "done"
    /\ file.data = Text(<<LPost, LPackages, LX, EndMarker>>)
    /\ Len(sections) = 2
    /\ sections[1].name = <<"%", "p", "o", "s", "t">>
    /\ Body(sections[1]) = <<LX>>

C18_OneHandleAtATime ==
    Len(handles) <= 1

\* every section of the text is closed by `%end`
WellClosed(ls) == ClosedSpans(ls) = Spans(ls, 1)

\* C20: in a text where every opened section is closed, every line that does
\* not start with `%` and is not an empty line read Outside is in exactly one
\* body, once and in order: the body of the section that was open when it was
\* read, or of the command section; no body holds any other line.
C20_LineConservation ==
    (pc = "done" /\ result = "Ok" /\ WellClosed(FileLines)) =>
        LET sps == Spans(FileLines, 1)
        IN  /\ Len(sections) = Len(sps) + 1
            /\ \A k \in DOMAIN sps :
                 sections[k].data = Text(SpanLines(FileLines, sps[k]))
            /\ sections[Len(sections)].data = Text(CommandLines(FileLines))

C20_Witness ==
    /\ pc = "done"
    /\ file.data = ExampleText
    /\ Len(sections) = 2
    /\ Body(sections[1]) = <<LY, LBlank, LX>>
    /\ Body(sections[2]) = <<LX, LY>>

\* the directives of a file, once its comments are removed
Directives(path) ==
    SelectSeq(Lines(Clean(fs[path].data)),
              LAMBDA l : StartsWith(l, <<"%", "i", "n", "c", "l", "u", "d", "e">>))

\* the file a directive with one argument names
Target(l) == SplitWhitespace(l)[2]

RECURSIVE GoodFrom(_, _)
\* from path, below the files in above, every directive has one argument,
\* its target exists and no file is reached from itself
GoodFrom(path, above) ==
    /\ path \notin above
    /\ path \in DOMAIN fs /\ fs[path].exists
    /\ \A i \in DOMAIN Directives(path) :
         /\ Len(SplitWhitespace(Directives(path)[i])) = 2
         /\ GoodFrom(Target(Directives(path)[i]), above \cup {path})

RECURSIVE Sum(_)
Sum(ns) == IF ns = <<>> THEN 0 ELSE Head(ns) + Sum(Tail(ns))

RECURSIVE LoadsBelow(_)
\* the loads that the directives of a file ask for: one for each occurrence
\* of a directive, and those of its target
LoadsBelow(path) ==
    LET ds == Directives(path)
    IN  Sum([i \in DOMAIN ds |-> 1 + LoadsBelow(Target(ds[i]))])

RECURSIVE Run(_)
\* the steps File::from_path takes on a file: it enters, takes a step for
\* each line that is no directive and the steps of the nested call for each
\* directive, and returns
Run(path) ==
    LET ls == Lines(Clean(fs[path].data))
    IN  2 + Sum([i \in DOMAIN ls |->
                   IF StartsWith(ls[i], <<"%", "i", "n", "c", "l", "u", "d", "e">>)
                   THEN Run(Target(ls[i])) ELSE 1])

\* the steps a call on the stack has taken
RunSoFar(f) ==
    1 + Sum([i \in 1..(f.line - 1) |->
               IF StartsWith(f.lines[i], <<"%", "i", "n", "c", "l", "u", "d", "e">>)
               THEN Run(Target(f.lines[i])) ELSE 1])

\* the steps Kickstart::from_path has taken
Steps ==
    CASE pc = "start" -> 0
      [] pc = "load"  -> Sum([k \in DOMAIN stack |-> RunSoFar(stack[k])])
      [] pc = "parse" -> Run(RootPath) + idx - 1
      [] pc = "done"  -> Run(RootPath) + idx

RECURSIVE Copied(_)
\* the lines File::from_path copies for a file, its own or from below
Copied(path) ==
    LET ls == Lines(Clean(fs[path].data))
    IN  Sum([i \in DOMAIN ls |->
               IF StartsWith(ls[i], <<"%", "i", "n", "c", "l", "u", "d", "e">>)
               THEN Copied(Target(ls[i])) ELSE 1])

\* the steps Kickstart::from_path takes in all: those of File::from_path, one
\* of Tree::parse for each line copied, and the end of Tree::parse
AllSteps == Run(RootPath) + Copied(RootPath) + 1

\* the guards of the actions of Next: a step can be taken
CanStep ==
    \/ pc = "start" /\ (Exists(RootPath) \/ ~Exists(RootPath))
    \/ Resolving /\ ~IsInclude(ResolveLine)
    \/ Resolving /\ IsInclude(ResolveLine) /\ ~WellFormedInclude(ResolveLine)
    \/ /\ Resolving /\ IsInclude(ResolveLine) /\ WellFormedInclude(ResolveLine)
       /\ \/ ~Exists(IncludePath(ResolveLine))
          \/ Exists(IncludePath(ResolveLine)) /\ Len(stack) < MaxDepth
          \/ Exists(IncludePath(ResolveLine)) /\ Len(stack) >= MaxDepth
    \/ pc = "load" /\ Len(stack) >= 1 /\ Top.line > Len(TopLines)
    \/ Parsing
    \/ pc = "parse" /\ idx > Len(FileLines)

\* C19: on an include graph without cycles in which every directive is well
\* formed and every target exists, File::from_path terminates, and each
\* occurrence of a directive causes exactly one load of its target. The run
\* never fails, it can take a step wherever it has not ended, the steps it has
\* taken never exceed a number that the files fix, and the loads are at most,
\* and once File::from_path has returned exactly, one for the root file and
\* one for each occurrence of a directive.
C19_TerminatesOneLoadPerDirective ==
    GoodFrom(RootPath, {}) =>
        /\ steps = Steps
        /\ steps <= AllSteps
        /\ result \in {"running", "Ok"}
        /\ pc = "done" \/ CanStep
        /\ pc = "done" => steps = AllSteps
        /\ loads <= 1 + LoadsBelow(RootPath)
        /\ pc \in {"parse", "done"} => loads = 1 + LoadsBelow(RootPath)

C19_Witness ==
    /\ pc = "done"
    /\ result = "Ok"
    /\ fs[A].data = Text(<<Include(B), LX, Include(B)>>)
    /\ fs[B].data = Text(<<LY, LX>>)
    /\ file.data = Text(<<LY, LX, LX, LY, LX>>)
    /\ loads = 3

====
